---- MODULE Spec2Model ----
(***************************************************************************)
(* Model of prometheus/promhttp/fasthttp.go: the fasthttp metrics handler  *)
(* FastHttpHandler / FastHttpHandlerFor and its writer decorator           *)
(* decorateFastHttpWriter.                                                 *)
(*                                                                         *)
(* One handler (one HandlerOpts value) serves requests; every request is   *)
(* one exposition cycle running the statements of FastHttpHandlerFor in    *)
(* order.  Spec has one cycle, SpecPool has NumCycles cycles that overlap  *)
(* and share the buffer pool only.                                         *)
(* SpecLive is Spec with the fairness of a running cycle, SpecDecorate     *)
(* applies decorateFastHttpWriter alone to headers built from tokens.      *)
(*                                                                         *)
(* Bytes are modelled as sequences of tokens.  A token stands for a        *)
(* non-empty run of bytes:                                                 *)
(*   [enc |-> "raw", k |-> "mf",   f |-> i]  complete exposition text of   *)
(*                                           family i                      *)
(*   [enc |-> "raw", k |-> "part", f |-> i]  what a failing Encode of      *)
(*                                           family i wrote before failing *)
(*   [enc |-> "gz",  k |-> "hdr",  f |-> 0]  the gzip member header        *)
(*   [enc |-> "gz",  k |-> "mf"/"part", ..]  deflate output for a raw token*)
(*   [enc |-> "gz",  k |-> "trl",  f |-> 0]  final block + CRC/size trailer*)
(* Strings that the code parses (the Accept-Encoding header) are sequences *)
(* of one-character strings.                                               *)
(***************************************************************************)
EXTENDS Integers, Sequences, FiniteSets, TLC

\* ------------------------------------------------------------------ bounds
\* Largest number of metric families one Gather returns.
MaxFamilies == 2
\* Number of requests the transport serves at the same time (cycles that
\* may overlap) in the concurrent specification.
NumCycles == 2
\* Largest number of metric families one Gather returns in the concurrent
\* specification.
MaxPoolFamilies == 1

Cycles == 1..NumCycles
\* Identities of the byte buffers that can exist at the same time.
BufIds == 1..NumCycles

\* ------------------------------------------------- HandlerOpts / policies
\* HandlerErrorHandling values (declared with iota next to HandlerOpts).
HTTPErrorOnError == 0
ContinueOnError == 1
PanicOnError == 2

Policies == {HTTPErrorOnError, ContinueOnError, PanicOnError}

\* HandlerOpts; ErrorLog is modelled by "a sink is configured".
HandlerOptsValues ==
    [ErrorLog : BOOLEAN, ErrorHandling : Policies, DisableCompression : BOOLEAN]

\* HandlerOpts{} : the Go zero value of every field.
ZeroHandlerOpts ==
    [ErrorLog |-> FALSE, ErrorHandling |-> 0, DisableCompression |-> FALSE]

\* ---------------------------------------------------------------- errors
NilErr == [kind |-> "nil", f |-> 0]
GatherError == [kind |-> "gather", f |-> 0]
\* The error Encode returns for family f (its text names the family).
EncodeError(f) == [kind |-> "encode", f |-> f]

\* --------------------------------------------------------------- strings
\* strings.TrimSpace restricted to the white space that occurs in headers.
IsSpace(ch) == ch \in {" ", "\t"}

RECURSIVE TrimLeft(_)
TrimLeft(s) ==
    IF Len(s) > 0 /\ IsSpace(Head(s)) THEN TrimLeft(Tail(s)) ELSE s

RECURSIVE TrimRight(_)
TrimRight(s) ==
    IF Len(s) > 0 /\ IsSpace(s[Len(s)])
    THEN TrimRight(SubSeq(s, 1, Len(s) - 1))
    ELSE s

TrimSpace(s) == TrimRight(TrimLeft(s))

\* strings.HasPrefix
HasPrefix(s, p) == Len(s) >= Len(p) /\ SubSeq(s, 1, Len(p)) = p

\* strings.Split(s, sep) for a one-character separator: always at least one
\* part, "" splits into one empty part.
RECURSIVE SplitFrom(_, _, _)
SplitFrom(s, sep, cur) ==
    IF s = <<>> THEN <<cur>>
    ELSE IF Head(s) = sep THEN <<cur>> \o SplitFrom(Tail(s), sep, <<>>)
    ELSE SplitFrom(Tail(s), sep, Append(cur, Head(s)))

Split(s, sep) == SplitFrom(s, sep, <<>>)

StrGzip == <<"g", "z", "i", "p">>
StrGzipSemi == <<"g", "z", "i", "p", ";">>

\* Values of the request's Accept-Encoding header: "" (absent), "gzip",
\* "br, gzip;q=1" and "x-gzip".
AcceptEncodingValues ==
    { <<>>,
      StrGzip,
      <<"b", "r", ",", " ">> \o StrGzipSemi \o <<"q", "=", "1">>,
      <<"x", "-">> \o StrGzip }

\* Largest number of comma-separated tokens of an Accept-Encoding header
\* that decorateFastHttpWriter is applied to on its own.
MaxParts == 2

\* A token of an Accept-Encoding header as a client writes it: optional
\* white space, the coding with its parameters, optional white space.
TokenCores ==
    { StrGzip,
      StrGzipSemi \o <<"q", "=", "0">>,
      <<"d", "e", "f", "l", "a", "t", "e">>,
      <<"i", "d", "e", "n", "t", "i", "t", "y">>,
      <<>>,
      <<"G", "Z", "I", "P">>,
      StrGzip \o <<"x">>,
      <<"x", "-">> \o StrGzip,
      StrGzip \o <<" ", ";", "q">> }

Tokens == [lead : {<<>>, <<" ">>}, core : TokenCores, trail : {<<>>, <<"\t">>}]

TokenLists == UNION { [1..n -> Tokens] : n \in 0..MaxParts }

\* The header value made of the tokens ts: the tokens as written, with a
\* comma between them; no token gives the empty (absent) header.
RECURSIVE JoinTokens(_)
JoinTokens(ts) ==
    IF ts = <<>> THEN <<>>
    ELSE Head(ts).lead \o Head(ts).core \o Head(ts).trail
         \o (IF Len(ts) > 1 THEN <<",">> \o JoinTokens(Tail(ts)) ELSE <<>>)

\* ------------------------------------------------- decorateFastHttpWriter
\* The loop's test without the strings.TrimSpace of line 109.
PartMatchesNoTrim(part) ==
    part = StrGzip \/ HasPrefix(part, StrGzipSemi)

\* The loop over the parts: the first part that matches decides.
PartMatches(part) ==
    TrimSpace(part) = StrGzip \/ HasPrefix(TrimSpace(part), StrGzipSemi)

\* decorateFastHttpWriter without the compressionDisabled test of line 103.
decorateFastHttpWriterAlways(acceptEncoding, compressionDisabled) ==
    IF \E i \in 1..Len(Split(acceptEncoding, ",")) :
          PartMatches(Split(acceptEncoding, ",")[i])
    THEN [gz |-> TRUE, encoding |-> "gzip"]
    ELSE [gz |-> FALSE, encoding |-> ""]

\* Returns the decorated writer (gz: a gzip.Writer around the buffer) and
\* the Content-Encoding label.
decorateFastHttpWriter(acceptEncoding, compressionDisabled) ==
    IF compressionDisabled
    THEN [gz |-> FALSE, encoding |-> ""]
    ELSE IF \E i \in 1..Len(Split(acceptEncoding, ",")) :
               PartMatches(Split(acceptEncoding, ",")[i])
         THEN [gz |-> TRUE, encoding |-> "gzip"]
         ELSE [gz |-> FALSE, encoding |-> ""]

\* ---------------------------------------------------- expfmt encoder
RawTok(k, f) == [enc |-> "raw", k |-> k, f |-> f]

\* What one enc.Encode(mf) call can do to its writer for family f:
\*   "ok"      writes the complete text and returns nil;
\*   "fail"    returns an error before writing anything;
\*   "partial" writes the beginning of the text, then returns an error.
EncodeOutcomes == {"ok", "fail", "partial"}

Encode(f, outcome) ==
    CASE outcome = "ok"      -> [data |-> <<RawTok("mf", f)>>, err |-> NilErr]
      [] outcome = "fail"    -> [data |-> <<>>, err |-> EncodeError(f)]
      [] outcome = "partial" -> [data |-> <<RawTok("part", f)>>, err |-> EncodeError(f)]

\* ------------------------------------------------- compress/gzip writer
GzHdr == [enc |-> "gz", k |-> "hdr", f |-> 0]
GzTrl == [enc |-> "gz", k |-> "trl", f |-> 0]

Deflate(raw) == [i \in 1..Len(raw) |-> [enc |-> "gz", k |-> raw[i].k, f |-> raw[i].f]]
Inflate(z) == [i \in 1..Len(z) |-> RawTok(z[i].k, z[i].f)]

\* The writer returned by decorateFastHttpWriter: the buffer itself, or a
\* gzip.Writer around it that has written nothing yet.
NewWriter(gz) ==
    [gz |-> gz, wroteHeader |-> FALSE, pending |-> <<>>, closed |-> FALSE]

\* writer.Write(data) with `under` the bytes of the underlying buffer.  A
\* gzip.Writer writes its header on the first Write and hands the data to
\* the deflate compressor, which keeps it until a block is full (`flush`,
\* decided by sizes the model does not track) or until Close.
WriterWrite(w, under, data, flush) ==
    IF ~w.gz
    THEN [w |-> w, under |-> under \o data]
    ELSE LET hdr == IF w.wroteHeader THEN <<>> ELSE <<GzHdr>>
             pend == w.pending \o data
         IN  IF flush
             THEN [w |-> [w EXCEPT !.wroteHeader = TRUE, !.pending = <<>>],
                   under |-> under \o hdr \o Deflate(pend)]
             ELSE [w |-> [w EXCEPT !.wroteHeader = TRUE, !.pending = pend],
                   under |-> under \o hdr]

\* A Close that writes nothing when nothing was written to the writer.
WriterCloseLazy(w, under) ==
    IF w.wroteHeader
    THEN [w |-> [w EXCEPT !.pending = <<>>, !.closed = TRUE],
          under |-> under \o Deflate(w.pending) \o <<GzTrl>>]
    ELSE [w |-> [w EXCEPT !.closed = TRUE], under |-> under]

\* closer.Close() of a gzip.Writer: the header if no Write happened, what
\* the compressor still holds, then the trailer.
WriterClose(w, under) ==
    LET hdr == IF w.wroteHeader THEN <<>> ELSE <<GzHdr>>
    IN  [w |-> [w EXCEPT !.wroteHeader = TRUE, !.pending = <<>>, !.closed = TRUE],
         under |-> under \o hdr \o Deflate(w.pending) \o <<GzTrl>>]

\* What a gzip reader makes of a byte stream: ok only for a header, deflate
\* data and a trailer, in this order.
Gunzip(bytes) ==
    IF /\ Len(bytes) >= 2
       /\ bytes[1] = GzHdr
       /\ bytes[Len(bytes)] = GzTrl
       /\ \A i \in 2..(Len(bytes) - 1) : bytes[i].enc = "gz" /\ bytes[i].k \in {"mf", "part"}
    THEN [ok |-> TRUE, data |-> Inflate(SubSeq(bytes, 2, Len(bytes) - 1))]
    ELSE [ok |-> FALSE, data |-> <<>>]

\* ------------------------------------------------- fasthttp RequestCtx
NoMsg == [prefix |-> "", err |-> NilErr]
ErrMsg(prefix, err) == [prefix |-> prefix, err |-> err]

\* net/http's http.StatusInternalServerError.
StatusInternalServerError == 500

\* The response of a fresh RequestCtx: status 200, no header set by the
\* handler, empty body.  The body is the text set by ctx.Error followed by
\* the bytes appended by ctx.Write.
NewResponse ==
    [status |-> 200, contentType |-> "", contentLength |-> -1,
     contentEncoding |-> "", text |-> NoMsg, bytes |-> <<>>]

\* ctx.Error(msg, statusCode): resets the response, sets the status code,
\* a plain-text content type and the message as the body.
ctxError(resp, msg, statusCode) ==
    [NewResponse EXCEPT !.status = statusCode,
                        !.contentType = "text/plain; charset=utf-8",
                        !.text = msg]

\* ctx.Write(p): appends a copy of p to the response body.
ctxWrite(resp, p) == [resp EXCEPT !.bytes = @ \o p]

\* expfmt.Negotiate(header): the requests of the model carry no Accept
\* header, for which Negotiate answers the text format.
FmtText == "text/plain; version=0.0.4"
Negotiate == FmtText

\* ------------------------------------------------------- the buffer pool
\* getBuf(): a buffer of the pool, or a new empty one when the pool hands
\* out nothing.  `nalloc` counts the buffers allocated so far.
getBuf(pl, bf, nalloc) ==
    { [b |-> b, pool |-> pl \ {b}, buf |-> bf, nalloc |-> nalloc] : b \in pl }
    \cup
    { [b |-> nalloc + 1, pool |-> pl,
       buf |-> [bf EXCEPT ![nalloc + 1] = <<>>], nalloc |-> nalloc + 1] :
      x \in IF nalloc + 1 \in BufIds THEN {0} ELSE {} }

\* giveBuf(buf): buf.Reset(), then back into the pool.
giveBuf(pl, bf, b) ==
    [pool |-> pl \cup {b}, buf |-> [bf EXCEPT ![b] = <<>>]]

\* giveBuf called at the end of the function only, not deferred: it does
\* not run when the function panics or returns early from the loop.
GiveBufAtEndOnly(exit) == exit \in {"noMetrics", "return"}

\* giveBuf(buf) without `defer`: it runs where it stands, right after
\* getBuf, and not on the ways out.
GiveBufNotDeferred(exit) == exit = "getBuf"

\* `defer giveBuf(buf)`: registered right after getBuf ("getBuf": it does
\* not run there), so it runs on every way out of the function from there
\* on: "encodeError" (return in the loop), "panic", "noMetrics" (return
\* after Close) and "return" (the end).
DeferredGiveBufRuns(exit) ==
    exit \in {"encodeError", "panic", "noMetrics", "return"}

\* ----------------------------------------------- the error-policy switches
\* What a case of a switch does: panic(err), or ctx.Error with a message
\* that starts with `error` ("" : no ctx.Error call), and whether the case
\* ends with `return`.
PolicyAction(panic, error, return) ==
    [panic |-> panic, error |-> error, return |-> return]

Proceed == PolicyAction(FALSE, "", FALSE)

\* The Println placed after the switch: reached only when the case neither
\* panics nor returns.
ErrorLoggedAfterSwitch(errorLog, err, act) ==
    errorLog /\ err # NilErr /\ ~act.panic /\ ~act.return

\* if opts.ErrorLog != nil { opts.ErrorLog.Println(..., err) }, inside
\* `if err != nil` and before the switch whose case is act.
ErrorLogged(errorLog, err, act) == errorLog /\ err # NilErr

\* GatherErrorAction without its PanicOnError case.
GatherErrorActionNoPanic(errorHandling, n) ==
    CASE errorHandling = ContinueOnError ->
            IF n = 0
            THEN PolicyAction(FALSE, "No metrics gathered, last error:", TRUE)
            ELSE Proceed
      [] errorHandling = HTTPErrorOnError ->
            PolicyAction(FALSE, "An error has occurred during metrics gathering:", TRUE)
      [] OTHER -> Proceed

\* GatherErrorAction whose HTTPErrorOnError case has no `return`.
GatherErrorActionNoReturn(errorHandling, n) ==
    CASE errorHandling = PanicOnError -> PolicyAction(TRUE, "", TRUE)
      [] errorHandling = ContinueOnError ->
            IF n = 0
            THEN PolicyAction(FALSE, "No metrics gathered, last error:", TRUE)
            ELSE Proceed
      [] errorHandling = HTTPErrorOnError ->
            PolicyAction(FALSE, "An error has occurred during metrics gathering:", FALSE)
      [] OTHER -> Proceed

\* GatherErrorAction without the len(mfs) == 0 test of ContinueOnError.
GatherErrorActionNoLenTest(errorHandling, n) ==
    CASE errorHandling = PanicOnError -> PolicyAction(TRUE, "", TRUE)
      [] errorHandling = HTTPErrorOnError ->
            PolicyAction(FALSE, "An error has occurred during metrics gathering:", TRUE)
      [] OTHER -> Proceed

\* GatherErrorAction whose HTTPErrorOnError case carries the message of the
\* encode loop's case.
GatherErrorActionEncodingMsg(errorHandling, n) ==
    CASE errorHandling = PanicOnError -> PolicyAction(TRUE, "", TRUE)
      [] errorHandling = ContinueOnError ->
            IF n = 0
            THEN PolicyAction(FALSE, "No metrics gathered, last error:", TRUE)
            ELSE Proceed
      [] errorHandling = HTTPErrorOnError ->
            PolicyAction(FALSE, "An error has occurred during metrics encoding:", TRUE)
      [] OTHER -> Proceed

\* switch opts.ErrorHandling after a Gather error, n = len(mfs).
GatherErrorAction(errorHandling, n) ==
    CASE errorHandling = PanicOnError -> PolicyAction(TRUE, "", TRUE)
      [] errorHandling = ContinueOnError ->
            IF n = 0
            THEN PolicyAction(FALSE, "No metrics gathered, last error:", TRUE)
            ELSE Proceed
      [] errorHandling = HTTPErrorOnError ->
            PolicyAction(FALSE, "An error has occurred during metrics gathering:", TRUE)
      [] OTHER -> Proceed

\* EncodeErrorAction whose HTTPErrorOnError case has no `return`.
EncodeErrorActionNoReturn(errorHandling) ==
    CASE errorHandling = PanicOnError -> PolicyAction(TRUE, "", TRUE)
      [] errorHandling = HTTPErrorOnError ->
            PolicyAction(FALSE, "An error has occurred during metrics encoding:", FALSE)
      [] OTHER -> Proceed

\* EncodeErrorAction whose ContinueOnError case leaves the function.
EncodeErrorActionContinueReturns(errorHandling) ==
    CASE errorHandling = PanicOnError -> PolicyAction(TRUE, "", TRUE)
      [] errorHandling = ContinueOnError -> PolicyAction(FALSE, "", TRUE)
      [] errorHandling = HTTPErrorOnError ->
            PolicyAction(FALSE, "An error has occurred during metrics encoding:", TRUE)
      [] OTHER -> Proceed

\* switch opts.ErrorHandling after an Encode error.
EncodeErrorAction(errorHandling) ==
    CASE errorHandling = PanicOnError -> PolicyAction(TRUE, "", TRUE)
      [] errorHandling = ContinueOnError -> Proceed
      [] errorHandling = HTTPErrorOnError ->
            PolicyAction(FALSE, "An error has occurred during metrics encoding:", TRUE)
      [] OTHER -> Proceed

\* lastErr assigned only while it is nil: the first error is kept.
LastErrKeepFirst(lastE, err) ==
    IF err # NilErr /\ lastE = NilErr THEN err ELSE lastE

\* if err := enc.Encode(mf); err != nil { lastErr = err ... }
LastErrAfter(lastE, err) == IF err # NilErr THEN err ELSE lastE

\* A loop that does not move on: the same family is encoded again.
RangeStay(i) == i

\* for _, mf := range mfs: the index of the family of the next iteration.
RangeNext(i) == i + 1

\* The handler without its "No metrics encoded" test.
NoMetricsEncodedNever(lastE, bufLen) == FALSE

\* if lastErr != nil && buf.Len() == 0 (after the loop and Close).
NoMetricsEncoded(lastE, bufLen) == lastE # NilErr /\ bufLen = 0

\* ------------------------------------------------ calls on the RequestCtx
Call(op, msg, str, n, bytes) ==
    [op |-> op, msg |-> msg, str |-> str, n |-> n, bytes |-> bytes]

ApplyCall(r, call) ==
    CASE call.op = "Error" -> ctxError(r, call.msg, call.n)
      [] call.op = "SetContentType" -> [r EXCEPT !.contentType = call.str]
      [] call.op = "SetContentLength" -> [r EXCEPT !.contentLength = call.n]
      [] call.op = "SetContentEncoding" -> [r EXCEPT !.contentEncoding = call.str]
      [] call.op = "Write" -> ctxWrite(r, call.bytes)

RECURSIVE ApplyCalls(_, _)
ApplyCalls(r, calls) ==
    IF calls = <<>> THEN r
    ELSE ApplyCalls(ApplyCall(r, Head(calls)), Tail(calls))

Ops(calls) == [i \in 1..Len(calls) |-> calls[i].op]

\* The statements after Close with the body written before lastErr and the
\* buffer's length are looked at.
CommitCallsWriteFirst(lastE, bytes, contentType, enc) ==
    << Call("Write", NoMsg, "", 0, bytes) >>
    \o (IF lastE # NilErr /\ Len(bytes) = 0
        THEN << Call("Error", ErrMsg("No metrics encoded, last error:", lastE), "",
                     StatusInternalServerError, <<>>) >>
        ELSE << Call("SetContentType", NoMsg, contentType, 0, <<>>),
                Call("SetContentLength", NoMsg, "", Len(bytes), <<>>) >>)

\* The statements after Close without the Content-Length header of line 91.
CommitCallsNoContentLength(lastE, bytes, contentType, enc) ==
    IF lastE # NilErr /\ Len(bytes) = 0
    THEN << Call("Error", ErrMsg("No metrics encoded, last error:", lastE), "",
                 StatusInternalServerError, <<>>) >>
    ELSE << Call("SetContentType", NoMsg, contentType, 0, <<>>) >>
         \o (IF enc # ""
             THEN << Call("SetContentEncoding", NoMsg, enc, 0, <<>>) >>
             ELSE <<>>)
         \o << Call("Write", NoMsg, "", 0, bytes) >>

\* The statements after Close, with `bytes` the buffer's contents: the
\* "No metrics encoded" error and return, or the headers and ctx.Write.
CommitCalls(lastE, bytes, contentType, enc) ==
    IF NoMetricsEncoded(lastE, Len(bytes))
    THEN << Call("Error", ErrMsg("No metrics encoded, last error:", lastE), "",
                 StatusInternalServerError, <<>>) >>
    ELSE << Call("SetContentType", NoMsg, contentType, 0, <<>>),
            Call("SetContentLength", NoMsg, "", Len(bytes), <<>>) >>
         \o (IF enc # ""
             THEN << Call("SetContentEncoding", NoMsg, enc, 0, <<>>) >>
             ELSE <<>>)
         \o << Call("Write", NoMsg, "", 0, bytes) >>

\* The handler without its Close of the decorated writer.
IsCloserNever(wr) == FALSE

\* writer.(io.Closer): a gzip.Writer has Close, a bytes.Buffer has not.
IsCloser(wr) == wr.gz

\* FastHttpHandler passing ContinueOnError.
FastHttpHandlerOptsContinue ==
    [ErrorLog |-> FALSE, ErrorHandling |-> ContinueOnError, DisableCompression |-> FALSE]

\* The options FastHttpHandler passes to FastHttpHandlerFor.
FastHttpHandlerOpts == ZeroHandlerOpts

\* ------------------------------------------------------------------ state
VARIABLES
    entry,        \* the entry point the transport calls
    opts,         \* the handler's HandlerOpts
    pc,           \* per cycle: its position in FastHttpHandlerFor
    req,          \* per cycle: the request's Accept-Encoding header value
    mfs,          \* per cycle: the families Gather returned
    gatherErr,    \* per cycle: the error Gather returned
    idx,          \* per cycle: index of the next family of the encode loop
    lastErr,      \* per cycle: lastErr
    writer,       \* per cycle: the decorated writer
    encoding,     \* per cycle: the Content-Encoding label
    held,         \* per cycle: the buffer `buf` points to (0: none yet)
    resp,         \* per cycle: ctx.Response
    fault,        \* per cycle: the value panic was called with
    errlog,       \* per cycle: what the cycle printed to opts.ErrorLog
    encoded,      \* per cycle: the families passed to enc.Encode, in order
    trace,        \* per cycle: the calls made, in order
    pool,         \* bufPool: the buffers it holds
    buf,          \* contents of every buffer
    nalloc,       \* buffers allocated so far
    acceptParts,  \* decorateFastHttpWriter alone: the tokens of its header
    decorated     \* decorateFastHttpWriter alone: what it returned

vars == <<entry, opts, pc, req, mfs, gatherErr, idx, lastErr,
          writer, encoding, held, resp, fault, errlog, encoded, trace,
          pool, buf, nalloc, acceptParts, decorated>>

Terminal == {"Committed", "AbortedHTTPError", "AbortedFault"}

InitCycles ==
    /\ pc = [c \in Cycles |-> "Idle"]
    /\ req = [c \in Cycles |-> <<>>]
    /\ mfs = [c \in Cycles |-> <<>>]
    /\ gatherErr = [c \in Cycles |-> NilErr]
    /\ idx = [c \in Cycles |-> 0]
    /\ lastErr = [c \in Cycles |-> NilErr]
    /\ writer = [c \in Cycles |-> NewWriter(FALSE)]
    /\ encoding = [c \in Cycles |-> ""]
    /\ held = [c \in Cycles |-> 0]
    /\ resp = [c \in Cycles |-> NewResponse]
    /\ fault = [c \in Cycles |-> NilErr]
    /\ errlog = [c \in Cycles |-> <<>>]
    /\ encoded = [c \in Cycles |-> <<>>]
    /\ trace = [c \in Cycles |-> <<>>]
    /\ pool = {}
    /\ buf = [b \in BufIds |-> <<>>]
    /\ nalloc = 0

\* A handler is either FastHttpHandler (empty options) or a caller's
\* function around FastHttpHandlerFor with options of its choice.
InitHandler ==
    /\ entry \in {"FastHttpHandler", "FastHttpHandlerFor"}
    /\ opts \in IF entry = "FastHttpHandler"
                THEN {FastHttpHandlerOpts}
                ELSE HandlerOptsValues

\* decorateFastHttpWriter has not been called on its own.
NotDecorated == [gz |-> FALSE, encoding |-> "none yet"]

InitNotDecorated ==
    /\ acceptParts = <<>>
    /\ decorated = NotDecorated

Init == InitHandler /\ InitCycles /\ InitNotDecorated

\* ---------------------------------------------------------------- actions
\* The transport calls the handler with the RequestCtx of a new request.
Request(c) ==
    /\ pc[c] = "Idle"
    /\ \E h \in AcceptEncodingValues : req' = [req EXCEPT ![c] = h]
    /\ pc' = [pc EXCEPT ![c] = "Start"]
    /\ UNCHANGED <<acceptParts, decorated, entry, opts, mfs, gatherErr, idx, lastErr,
                   writer, encoding, held, resp, fault, errlog, encoded,
                   trace, pool, buf, nalloc>>

\* mfs, err := reg.Gather() and the handling of err; Gather returns at
\* most maxFam families.
Gather(c, maxFam) ==
    /\ pc[c] = "Start"
    /\ \E n \in 0..maxFam, e \in {NilErr, GatherError} :
         LET act == IF e = NilErr THEN Proceed
                    ELSE GatherErrorAction(opts.ErrorHandling, n)
             logged == ErrorLogged(opts.ErrorLog, e, act)
         IN  /\ mfs' = [mfs EXCEPT ![c] = [i \in 1..n |-> i]]
             /\ gatherErr' = [gatherErr EXCEPT ![c] = e]
             /\ errlog' = [errlog EXCEPT ![c] =
                   IF logged THEN Append(@, ErrMsg("error gathering metrics:", e))
                   ELSE @]
             /\ fault' = [fault EXCEPT ![c] = IF act.panic THEN e ELSE @]
             /\ resp' = [resp EXCEPT ![c] =
                   IF ~act.panic /\ act.error # ""
                   THEN ctxError(@, ErrMsg(act.error, e), StatusInternalServerError)
                   ELSE @]
             /\ trace' = [trace EXCEPT ![c] =
                   @ \o <<"Gather">>
                     \o (IF logged THEN <<"Log">> ELSE <<>>)
                     \o (IF act.panic THEN <<"panic">> ELSE <<>>)
                     \o (IF ~act.panic /\ act.error # "" THEN <<"Error">> ELSE <<>>)]
             /\ pc' = [pc EXCEPT ![c] =
                   CASE act.panic -> "AbortedFault"
                     [] act.return -> "AbortedHTTPError"
                     [] OTHER -> "Gathered"]
    /\ UNCHANGED <<acceptParts, decorated, entry, opts, req, idx, lastErr, writer,
                   encoding, held, encoded, pool, buf, nalloc>>

\* Header conversion, expfmt.Negotiate, getBuf, defer giveBuf (which only
\* registers the call), decorateFastHttpWriter, expfmt.NewEncoder, var
\* lastErr.
Negotiated(c) ==
    /\ pc[c] = "Gathered"
    /\ \E g \in getBuf(pool, buf, nalloc) :
         LET given == giveBuf(g.pool, g.buf, g.b)
         IN  /\ held' = [held EXCEPT ![c] = g.b]
             /\ pool' = IF DeferredGiveBufRuns("getBuf") THEN given.pool ELSE g.pool
             /\ buf' = IF DeferredGiveBufRuns("getBuf") THEN given.buf ELSE g.buf
             /\ nalloc' = g.nalloc
    /\ LET dec == decorateFastHttpWriter(req[c], opts.DisableCompression)
       IN  /\ writer' = [writer EXCEPT ![c] = NewWriter(dec.gz)]
           /\ encoding' = [encoding EXCEPT ![c] = dec.encoding]
    /\ idx' = [idx EXCEPT ![c] = 1]
    /\ lastErr' = [lastErr EXCEPT ![c] = NilErr]
    /\ trace' = [trace EXCEPT ![c] =
          @ \o <<"getBuf">>
            \o (IF DeferredGiveBufRuns("getBuf") THEN <<"giveBuf">> ELSE <<>>)]
    /\ pc' = [pc EXCEPT ![c] = "Encoding"]
    /\ UNCHANGED <<acceptParts, decorated, entry, opts, req, mfs, gatherErr, resp, fault,
                   errlog, encoded>>

\* One iteration of `for _, mf := range mfs`.
EncodeNext(c) ==
    /\ pc[c] = "Encoding"
    /\ idx[c] <= Len(mfs[c])
    /\ \E outcome \in EncodeOutcomes, flush \in BOOLEAN :
         LET f == mfs[c][idx[c]]
             r == Encode(f, outcome)
             b == held[c]
             wr == IF r.data = <<>>
                   THEN [w |-> writer[c], under |-> buf[b]]
                   ELSE WriterWrite(writer[c], buf[b], r.data, flush)
             act == IF r.err = NilErr THEN Proceed
                    ELSE EncodeErrorAction(opts.ErrorHandling)
             logged == ErrorLogged(opts.ErrorLog, r.err, act)
             errors == ~act.panic /\ act.error # ""
             exits == act.panic \/ act.return
             exit == IF act.panic THEN "panic" ELSE "encodeError"
             gives == exits /\ DeferredGiveBufRuns(exit)
             written == [buf EXCEPT ![b] = wr.under]
             given == giveBuf(pool, written, b)
         IN  /\ flush => (writer[c].gz /\ r.data # <<>>)
             /\ encoded' = [encoded EXCEPT ![c] =
                   Append(@, [f |-> f, outcome |-> outcome])]
             /\ writer' = [writer EXCEPT ![c] = wr.w]
             /\ lastErr' = [lastErr EXCEPT ![c] = LastErrAfter(@, r.err)]
             /\ errlog' = [errlog EXCEPT ![c] =
                   IF logged
                   THEN Append(@, ErrMsg("error encoding metric family:", r.err))
                   ELSE @]
             /\ fault' = [fault EXCEPT ![c] = IF act.panic THEN r.err ELSE @]
             /\ resp' = [resp EXCEPT ![c] =
                   IF errors
                   THEN ctxError(@, ErrMsg(act.error, r.err), StatusInternalServerError)
                   ELSE @]
             /\ trace' = [trace EXCEPT ![c] =
                   @ \o <<"Encode">>
                     \o (IF logged THEN <<"Log">> ELSE <<>>)
                     \o (IF act.panic THEN <<"panic">> ELSE <<>>)
                     \o (IF errors THEN <<"Error">> ELSE <<>>)
                     \o (IF gives THEN <<"giveBuf">> ELSE <<>>)]
             /\ idx' = [idx EXCEPT ![c] = IF exits THEN @ ELSE RangeNext(@)]
             /\ pc' = [pc EXCEPT ![c] =
                   CASE act.panic -> "AbortedFault"
                     [] act.return -> "AbortedHTTPError"
                     [] OTHER -> "Encoding"]
             /\ pool' = IF gives THEN given.pool ELSE pool
             /\ buf' = IF gives THEN given.buf ELSE written
    /\ UNCHANGED <<acceptParts, decorated, entry, opts, req, mfs, gatherErr, encoding,
                   held, nalloc>>

\* if closer, ok := writer.(io.Closer); ok { closer.Close() }
Finalize(c) ==
    /\ pc[c] = "Encoding"
    /\ idx[c] > Len(mfs[c])
    /\ LET b == held[c]
           cl == IF IsCloser(writer[c])
                 THEN WriterClose(writer[c], buf[b])
                 ELSE [w |-> writer[c], under |-> buf[b]]
       IN  /\ writer' = [writer EXCEPT ![c] = cl.w]
           /\ buf' = [buf EXCEPT ![b] = cl.under]
           /\ trace' = [trace EXCEPT ![c] =
                 IF IsCloser(writer[c]) THEN Append(@, "Close") ELSE @]
    /\ pc' = [pc EXCEPT ![c] = "Finalizing"]
    /\ UNCHANGED <<acceptParts, decorated, entry, opts, req, mfs, gatherErr, idx, lastErr,
                   encoding, held, resp, fault, errlog, encoded, pool, nalloc>>

\* The check of lastErr and buf.Len(), then either ctx.Error and return or
\* the headers and ctx.Write(buf.Bytes()); the deferred giveBuf on the way
\* out.  buf.Len() of the check is evaluated only when lastErr != nil.
Commit(c) ==
    /\ pc[c] = "Finalizing"
    /\ LET b == held[c]
           calls == CommitCalls(lastErr[c], buf[b], Negotiate, encoding[c])
           errors == \E i \in 1..Len(calls) : calls[i].op = "Error"
           exit == IF errors THEN "noMetrics" ELSE "return"
           gives == DeferredGiveBufRuns(exit)
           given == giveBuf(pool, buf, b)
       IN  /\ resp' = [resp EXCEPT ![c] = ApplyCalls(@, calls)]
           /\ trace' = [trace EXCEPT ![c] =
                 @ \o (IF lastErr[c] # NilErr THEN <<"Len">> ELSE <<>>)
                   \o Ops(calls)
                   \o (IF gives THEN <<"giveBuf">> ELSE <<>>)]
           /\ pc' = [pc EXCEPT ![c] =
                 IF errors THEN "AbortedHTTPError" ELSE "Committed"]
           /\ pool' = IF gives THEN given.pool ELSE pool
           /\ buf' = IF gives THEN given.buf ELSE buf
    /\ UNCHANGED <<acceptParts, decorated, entry, opts, req, mfs, gatherErr, idx, lastErr,
                   writer, encoding, held, fault, errlog, encoded, nalloc>>

\* A step of cycle c.
Step(c, maxFam) ==
    \/ Request(c)
    \/ Gather(c, maxFam)
    \/ Negotiated(c)
    \/ EncodeNext(c)
    \/ Finalize(c)
    \/ Commit(c)

\* One request.
Next == Step(1, MaxFamilies)

Spec == Init /\ [][Next]_vars

\* The statements of a started cycle: Gather, Encode, Close and the calls on
\* the RequestCtx return, and the goroutine that serves the request keeps
\* running until the function is left.
Run(c, maxFam) ==
    \/ Gather(c, maxFam)
    \/ Negotiated(c)
    \/ EncodeNext(c)
    \/ Finalize(c)
    \/ Commit(c)

SpecLive == Init /\ [][Next]_vars /\ WF_vars(Run(1, MaxFamilies))

\* NumCycles requests at the same time, in any interleaving of their steps.
NextPool == \E c \in Cycles : Step(c, MaxPoolFamilies)

SpecPool == Init /\ [][NextPool]_vars

\* decorateFastHttpWriter on its own: every header made of at most MaxParts
\* tokens, compression disabled or not.
InitDecorate ==
    /\ entry = "FastHttpHandlerFor"
    /\ opts \in {o \in HandlerOptsValues :
                    o.ErrorLog = FALSE /\ o.ErrorHandling = HTTPErrorOnError}
    /\ InitCycles
    /\ acceptParts \in TokenLists
    /\ decorated = NotDecorated

\* writer, encoding := decorateFastHttpWriter(ctx, buf, opts.DisableCompression)
\* for a request whose Accept-Encoding header is made of acceptParts.
Decorate ==
    /\ decorated = NotDecorated
    /\ decorated' = decorateFastHttpWriter(JoinTokens(acceptParts),
                                           opts.DisableCompression)
    /\ UNCHANGED <<acceptParts, entry, opts, pc, req, mfs, gatherErr, idx,
                   lastErr, writer, encoding, held, resp, fault, errlog,
                   encoded, trace, pool, buf, nalloc>>

NextDecorate == Decorate

SpecDecorate == InitDecorate /\ [][NextDecorate]_vars

\* ------------------------------------------------------------- properties
Count(seq, ev) == Cardinality({i \in 1..Len(seq) : seq[i] = ev})

\* The bytes the encoder handed to the decorated writer in cycle c.
RECURSIVE ProducedBy(_)
ProducedBy(es) ==
    IF es = <<>> THEN <<>>
    ELSE Encode(Head(es).f, Head(es).outcome).data \o ProducedBy(Tail(es))

Produced(c) == ProducedBy(encoded[c])

\* The response body as its receiver reads it.
Payload(c) ==
    IF resp[c].contentEncoding = "gzip"
    THEN Gunzip(resp[c].bytes)
    ELSE [ok |-> TRUE, data |-> resp[c].bytes]

ErrorOccurred(c) == gatherErr[c] # NilErr \/ lastErr[c] # NilErr

\* A server-error response that carries nothing of a success response.
IsErrorResponse(c) ==
    /\ resp[c].status = StatusInternalServerError
    /\ resp[c].text # NoMsg
    /\ resp[c].bytes = <<>>
    /\ resp[c].contentLength = -1
    /\ resp[c].contentEncoding = ""
    /\ resp[c].contentType # FmtText

\* A success response whose body is what the encoder produced.
IsSuccessResponse(c) ==
    /\ resp[c].status = 200
    /\ resp[c].text = NoMsg
    /\ resp[c].contentType = FmtText
    /\ Payload(c).ok
    /\ Payload(c).data = Produced(c)
    /\ \A i \in 1..Len(Payload(c).data) : Payload(c).data[i].f \in 1..Len(mfs[c])

\* C1: under HTTPErrorOnError, as soon as Gather or an Encode has returned
\* an error the cycle has ended in AbortedHTTPError with a 500 response
\* that names this error, and neither the buffer's bytes nor a success
\* header has reached the response.
C1_HTTPErrorNoPartialBody ==
    \A c \in Cycles :
        (opts.ErrorHandling = HTTPErrorOnError /\ ErrorOccurred(c)) =>
            /\ pc[c] = "AbortedHTTPError"
            /\ IsErrorResponse(c)
            /\ resp[c].text.err = (IF gatherErr[c] # NilErr THEN gatherErr[c] ELSE lastErr[c])
            /\ Count(trace[c], "Write") = 0

\* C1's case: a family was encoded into the buffer, then the next failed.
C1_Witness ==
    \E c \in Cycles :
        /\ opts.ErrorHandling = HTTPErrorOnError
        /\ pc[c] = "AbortedHTTPError"
        /\ Len(encoded[c]) = 2
        /\ encoded[c][1].outcome = "ok"
        /\ lastErr[c] = EncodeError(2)

\* C2 as stated: under ContinueOnError a Gather error with no family ends
\* in a 500 response, and a Gather error with at least one family ends in
\* a success response with the returned families only.
C2_Original ==
    \A c \in Cycles :
        (opts.ErrorHandling = ContinueOnError /\ gatherErr[c] # NilErr
            /\ pc[c] \in Terminal) =>
            IF Len(mfs[c]) = 0
            THEN pc[c] = "AbortedHTTPError" /\ IsErrorResponse(c)
            ELSE pc[c] = "Committed" /\ IsSuccessResponse(c)

\* Nothing reached the buffer: no Encode wrote a byte and no gzip writer
\* was applied.
NothingProduced(c) == Produced(c) = <<>> /\ ~writer[c].gz

\* C2 (amended): under ContinueOnError a Gather error with no family ends
\* in a 500 response; a Gather error with at least one family ends in a
\* success response with the output of the returned families only, unless
\* nothing reached the buffer, which ends in a 500 response.
C2_ContinueOnGatherError ==
    \A c \in Cycles :
        (opts.ErrorHandling = ContinueOnError /\ gatherErr[c] # NilErr
            /\ pc[c] \in Terminal) =>
            IF Len(mfs[c]) = 0 \/ NothingProduced(c)
            THEN pc[c] = "AbortedHTTPError" /\ IsErrorResponse(c)
            ELSE pc[c] = "Committed" /\ IsSuccessResponse(c)

\* C2's case: a degraded snapshot is served.
C2_Witness ==
    \E c \in Cycles :
        /\ opts.ErrorHandling = ContinueOnError
        /\ gatherErr[c] # NilErr
        /\ Len(mfs[c]) >= 1
        /\ pc[c] = "Committed"
        /\ resp[c].bytes # <<>>

\* C3 as stated: under ContinueOnError, with at least one family and with
\* or without gzip, a cycle in which every family failed to encode ends in
\* AbortedHTTPError.  Stated for the failures most favourable to the claim:
\* every Encode returned its error without writing a byte.
C3_AllFailIsHTTPError ==
    \A c \in Cycles :
        (/\ opts.ErrorHandling = ContinueOnError
         /\ Len(mfs[c]) >= 1
         /\ pc[c] \in Terminal
         /\ Len(encoded[c]) = Len(mfs[c])
         /\ \A i \in 1..Len(encoded[c]) : encoded[c][i].outcome = "fail") =>
            pc[c] = "AbortedHTTPError" /\ IsErrorResponse(c)

\* C4: under PanicOnError, as soon as Gather or an Encode has returned an
\* error the cycle has ended in AbortedFault with that error as the panic
\* value; the response is untouched, and the failing Encode is the last one.
C4_PanicNoResponse ==
    \A c \in Cycles :
        (opts.ErrorHandling = PanicOnError /\ ErrorOccurred(c)) =>
            /\ pc[c] = "AbortedFault"
            /\ fault[c] = (IF gatherErr[c] # NilErr THEN gatherErr[c] ELSE lastErr[c])
            /\ resp[c] = NewResponse
            /\ \A i \in 1..Len(trace[c]) :
                   trace[c][i] \notin {"Error", "Write", "SetContentType",
                                       "SetContentLength", "SetContentEncoding"}
            /\ trace[c][Len(trace[c])] \in {"panic", "giveBuf"}
            /\ gatherErr[c] # NilErr => encoded[c] = <<>>
            /\ \A i \in 1..Len(encoded[c]) :
                   (encoded[c][i].outcome # "ok") <=> (i = Len(encoded[c]))

\* C4's case: an Encode failed with families still to come.
C4_Witness ==
    \E c \in Cycles :
        /\ opts.ErrorHandling = PanicOnError
        /\ pc[c] = "AbortedFault"
        /\ lastErr[c] # NilErr
        /\ Len(encoded[c]) < Len(mfs[c])

\* The buffers that were handed out and are not back in the pool.
Outstanding == (1..nalloc) \ pool

Holding == {c \in Cycles : pc[c] \in {"Encoding", "Finalizing"}}

\* C5: a cycle calls giveBuf exactly once if it called getBuf, whatever its
\* way out, and not before its way out; the outstanding buffers are the
\* buffers of the cycles between getBuf and their way out, one each, so
\* none is outstanding once every cycle has ended.
C5_BufferReturnedOnce ==
    /\ \A c \in Cycles :
        /\ Count(trace[c], "getBuf") = (IF held[c] = 0 THEN 0 ELSE 1)
        /\ Count(trace[c], "giveBuf") =
               (IF pc[c] \in Terminal /\ held[c] # 0 THEN 1 ELSE 0)
        /\ c \in Holding => held[c] \in Outstanding
    /\ \A c, d \in Holding : c # d => held[c] # held[d]
    /\ Outstanding = {held[c] : c \in Holding}
    /\ (\A c \in Cycles : pc[c] \in Terminal \cup {"Idle"}) => Outstanding = {}

\* C5's case: two cycles have taken a buffer and ended, one by the panic in
\* the loop or an error return, one by the commit.
C5_Witness ==
    \E c, d \in Cycles :
        /\ held[c] # 0 /\ pc[c] \in {"AbortedFault", "AbortedHTTPError"}
        /\ held[d] # 0 /\ pc[d] = "Committed"
        /\ nalloc = 2

IsOk(e) == e.outcome = "ok"

Positions(seq, evs) == {i \in 1..Len(seq) : seq[i] \in evs}

\* Close is called when the writer is a gzip.Writer, once, after every
\* Encode and before every read of the buffer and the body write.
CloseInOrder(c) ==
    IF writer[c].gz
    THEN /\ Count(trace[c], "Close") = 1
         /\ \A i \in Positions(trace[c], {"Encode"}) :
                \A j \in Positions(trace[c], {"Close"}) : i < j
         /\ \A i \in Positions(trace[c], {"Close"}) :
                \A j \in Positions(trace[c], {"Len", "SetContentLength", "Write"}) : i < j
    ELSE Count(trace[c], "Close") = 0

\* C6 as stated: in a Committed cycle Close comes after the last Encode and
\* before the reads of the buffer, and under gzip the body is the complete
\* compressed stream of the successfully encoded families, in order.
C6_Original ==
    \A c \in Cycles :
        pc[c] = "Committed" =>
            /\ CloseInOrder(c)
            /\ writer[c].gz =>
                   /\ Gunzip(resp[c].bytes).ok
                   /\ Gunzip(resp[c].bytes).data = ProducedBy(SelectSeq(encoded[c], IsOk))

\* C6 (amended): in a Committed cycle Close comes after the last Encode and
\* before the reads of the buffer, and under gzip the body is the complete
\* compressed stream of all the encoder wrote, in order: the text of the
\* successfully encoded families and what the failing Encodes wrote before
\* they failed.
C6_FinalizeBeforeCommit ==
    \A c \in Cycles :
        pc[c] = "Committed" =>
            /\ CloseInOrder(c)
            /\ writer[c].gz =>
                   /\ Gunzip(resp[c].bytes).ok
                   /\ Gunzip(resp[c].bytes).data = Produced(c)
                   /\ resp[c].contentLength = Len(resp[c].bytes)

\* C6's case: two families compressed and committed.
C6_Witness ==
    \E c \in Cycles :
        /\ pc[c] = "Committed"
        /\ writer[c].gz
        /\ Len(encoded[c]) = 2
        /\ Len(Gunzip(resp[c].bytes).data) = 2

\* C7: the body is written at most once; after the write there is neither a
\* ctx.Error call nor a panic, and the response keeps its success status.
C7_CommitIrrevocable ==
    \A c \in Cycles :
        /\ Count(trace[c], "Write") <= 1
        /\ \A i \in Positions(trace[c], {"Write"}) :
               \A j \in Positions(trace[c], {"Error", "panic"}) : j < i
        /\ Count(trace[c], "Write") = 1 =>
               /\ resp[c].status = 200
               /\ resp[c].text = NoMsg
               /\ fault[c] = NilErr

\* C7's case: the body was written in a cycle in which an error occurred.
C7_Witness ==
    \E c \in Cycles :
        /\ Count(trace[c], "Write") = 1
        /\ lastErr[c] # NilErr
        /\ pc[c] = "Committed"

\* C8: a cycle makes at most one of: a ctx.Error call, a panic, the body
\* write; its terminal state is the one of the call it made; an error
\* response carries no success header and no body bytes, and a cycle that
\* panicked left the response untouched.
C8_TerminalsExclusive ==
    \A c \in Cycles :
        /\ Count(trace[c], "Error") + Count(trace[c], "panic")
               + Count(trace[c], "Write") <= 1
        /\ pc[c] = "Committed" <=> Count(trace[c], "Write") = 1
        /\ pc[c] = "AbortedHTTPError" <=> Count(trace[c], "Error") = 1
        /\ pc[c] = "AbortedFault" <=> Count(trace[c], "panic") = 1
        /\ resp[c].status = StatusInternalServerError => IsErrorResponse(c)
        /\ pc[c] = "AbortedFault" => resp[c] = NewResponse /\ fault[c] # NilErr
        /\ pc[c] # "AbortedFault" => fault[c] = NilErr

\* C8's case: Gather and every Encode failed, and one error response is
\* the whole outcome.
C8_Witness ==
    \E c \in Cycles :
        /\ pc[c] = "AbortedHTTPError"
        /\ gatherErr[c] # NilErr
        /\ lastErr[c] # NilErr
        /\ Len(encoded[c]) = 2

\* C9: a handler that is FastHttpHandler ends a cycle in AbortedHTTPError
\* with a 500 response at the first Gather or Encode error, never serves a
\* success response after an error, logs nothing, and compresses exactly
\* when the request's Accept-Encoding asks for gzip.
C9_DefaultIsHTTPError ==
    entry = "FastHttpHandler" =>
        \A c \in Cycles :
            /\ ErrorOccurred(c) =>
                   /\ pc[c] = "AbortedHTTPError"
                   /\ IsErrorResponse(c)
                   /\ \A i \in 1..Len(encoded[c]) :
                          (encoded[c][i].outcome # "ok") <=> (i = Len(encoded[c]))
            /\ pc[c] = "Committed" => ~ErrorOccurred(c) /\ resp[c].status = 200
            /\ errlog[c] = <<>>
            /\ Count(trace[c], "Log") = 0
            /\ held[c] # 0 =>
                   writer[c].gz = decorateFastHttpWriter(req[c], FALSE).gz

\* C9's case: FastHttpHandler met an Encode error with families to come.
C9_Witness ==
    \E c \in Cycles :
        /\ entry = "FastHttpHandler"
        /\ pc[c] = "AbortedHTTPError"
        /\ lastErr[c] # NilErr
        /\ Len(encoded[c]) < Len(mfs[c])

\* C10 as stated: no cycle reaches Committed with an empty buffer.
C10_Original ==
    \A c \in Cycles :
        pc[c] = "Committed" => resp[c].bytes # <<>> /\ resp[c].contentLength > 0

\* C10 (amended): success headers and the buffer's bytes are written only
\* in a cycle that ends Committed, without a panic or a ctx.Error call, and
\* in which the buffer was non-empty or no Encode had failed; the buffer of
\* a Committed cycle is empty exactly when nothing reached it.
C10_CommitNeedsBytesOrNoError ==
    \A c \in Cycles :
        /\ (Count(trace[c], "Write") > 0 \/ resp[c].contentLength # -1) =>
               pc[c] = "Committed"
        /\ pc[c] = "Committed" =>
               /\ Count(trace[c], "Error") = 0 /\ Count(trace[c], "panic") = 0
               /\ resp[c].bytes # <<>> \/ lastErr[c] = NilErr
               /\ resp[c].bytes = <<>> <=> NothingProduced(c)
               /\ resp[c].contentLength = Len(resp[c].bytes)

\* C10's case: no family, no error, no gzip: an empty success response.
C10_Witness ==
    \E c \in Cycles :
        /\ pc[c] = "Committed"
        /\ mfs[c] = <<>>
        /\ gatherErr[c] = NilErr
        /\ resp[c].bytes = <<>>
        /\ resp[c].contentLength = 0

\* Gather returned (nil, err) in cycle c of a handler with HTTPErrorOnError.
GatherNilErr(c) ==
    /\ opts.ErrorHandling = HTTPErrorOnError
    /\ gatherErr[c] # NilErr
    /\ mfs[c] = <<>>

\* C11 as stated: when Gather returns (nil, err) under HTTPErrorOnError the
\* response is a server error whose body equals err's message, and the
\* handler sets no Content-Type header.
C11_Original ==
    \A c \in Cycles :
        GatherNilErr(c) =>
            /\ resp[c].status = StatusInternalServerError
            /\ resp[c].text = ErrMsg("", gatherErr[c])
            /\ resp[c].bytes = <<>>
            /\ Count(trace[c], "SetContentType") = 0

\* C11 (amended): when Gather returns (nil, err) under HTTPErrorOnError the
\* cycle ends in AbortedHTTPError with a server-error response whose body is
\* the gathering message followed by err's message, and the handler sets no
\* Content-Type header: the response has the plain-text type of ctx.Error,
\* not the negotiated format, and no Content-Length or Content-Encoding.
C11_GatherNilErrResponse ==
    \A c \in Cycles :
        GatherNilErr(c) =>
            /\ pc[c] = "AbortedHTTPError"
            /\ resp[c].status = StatusInternalServerError
            /\ resp[c].text =
                   ErrMsg("An error has occurred during metrics gathering:", gatherErr[c])
            /\ resp[c].bytes = <<>>
            /\ Count(trace[c], "SetContentType") = 0
            /\ resp[c].contentType # FmtText
            /\ resp[c].contentLength = -1
            /\ resp[c].contentEncoding = ""
            /\ trace[c] = <<"Gather">> \o (IF opts.ErrorLog THEN <<"Log">> ELSE <<>>)
                             \o <<"Error">>

\* C11's case: Gather returned no family and an error under HTTPErrorOnError
\* and the cycle has answered.
C11_Witness ==
    \E c \in Cycles :
        /\ GatherNilErr(c)
        /\ pc[c] = "AbortedHTTPError"
        /\ resp[c].status = StatusInternalServerError

\* The codings that ask for gzip: "gzip" and "gzip" with a quality value.
GzipCores == {StrGzip, StrGzipSemi \o <<"q", "=", "0">>}

AsksGzip(ts) == \E i \in 1..Len(ts) : ts[i].core \in GzipCores

\* C12: decorateFastHttpWriter returns the gzip writer and the label "gzip"
\* exactly when compression is not disabled and one of the header's tokens,
\* at any position and with any white space around it, is "gzip" or starts
\* with "gzip;"; otherwise it returns the writer it was given and the empty
\* label.
C12_GzipIffToken ==
    decorated # NotDecorated =>
        /\ decorated.gz <=> (~opts.DisableCompression /\ AsksGzip(acceptParts))
        /\ decorated.encoding = (IF decorated.gz THEN "gzip" ELSE "")

\* C12's case: gzip with a quality value, after another coding and white
\* space, was found.
C12_Witness ==
    /\ decorated.gz
    /\ decorated.encoding = "gzip"
    /\ Len(acceptParts) = 2
    /\ acceptParts[1].core \notin GzipCores
    /\ acceptParts[2].core # StrGzip
    /\ acceptParts[2].lead # <<>>

\* C13: the step that takes a cycle to Committed starts after Close
\* (Finalizing) and leaves a response whose Content-Length is the length of
\* the buffer as Close left it and whose body is exactly the buffer's
\* bytes; in the cycle the length is set once, before the one body write,
\* and nothing is encoded or closed after it.
C13_ContentLengthIsBodyLength ==
    [][\A c \in Cycles :
          (pc'[c] = "Committed" /\ pc[c] # "Committed") =>
              /\ pc[c] = "Finalizing"
              /\ resp'[c].contentLength = Len(buf[held[c]])
              /\ resp'[c].bytes = buf[held[c]]
              /\ Count(trace'[c], "SetContentLength") = 1
              /\ Count(trace'[c], "Write") = 1
              /\ \A i \in Positions(trace'[c], {"SetContentLength"}) :
                    /\ \A j \in Positions(trace'[c], {"Encode", "Close"}) : j < i
                    /\ \A j \in Positions(trace'[c], {"Write"}) : i < j]_vars

\* C13's case: a compressed body of two families, a header and a trailer
\* was committed with its length.
C13_Witness ==
    \E c \in Cycles :
        /\ pc[c] = "Committed"
        /\ writer[c].gz
        /\ Len(resp[c].bytes) = 4
        /\ resp[c].contentLength = 4

\* The values of AcceptEncodingValues that ask for gzip: "gzip" and
\* "br, gzip;q=1".
GzipRequested(h) ==
    h \in {StrGzip, <<"b", "r", ",", " ">> \o StrGzipSemi \o <<"q", "=", "1">>}

\* C14: in a Committed cycle the response has Content-Encoding "gzip"
\* exactly when the gzip writer was put around the buffer, which is exactly
\* when the request asked for gzip and compression is not disabled; then
\* the body is a gzip stream, otherwise there is no Content-Encoding and
\* the body is the encoder's output as it is.
C14_ContentEncodingIffCompressed ==
    \A c \in Cycles :
        pc[c] = "Committed" =>
            /\ resp[c].contentEncoding \in {"", "gzip"}
            /\ resp[c].contentEncoding = "gzip" <=> writer[c].gz
            /\ writer[c].gz <=> (~opts.DisableCompression /\ GzipRequested(req[c]))
            /\ writer[c].gz =>
                   /\ Gunzip(resp[c].bytes).ok
                   /\ \A i \in 1..Len(resp[c].bytes) : resp[c].bytes[i].enc = "gz"
            /\ ~writer[c].gz =>
                   /\ resp[c].bytes = Produced(c)
                   /\ \A i \in 1..Len(resp[c].bytes) : resp[c].bytes[i].enc = "raw"

\* C14's case: the request asked for gzip, compression is disabled, and
\* one family was served as plain text without Content-Encoding.
C14_Witness ==
    \E c \in Cycles :
        /\ pc[c] = "Committed"
        /\ opts.DisableCompression
        /\ GzipRequested(req[c])
        /\ resp[c].contentEncoding = ""
        /\ resp[c].bytes = <<RawTok("mf", 1)>>

\* The log lines of the Encode errors among es, in order.
RECURSIVE EncodeLogLines(_)
EncodeLogLines(es) ==
    IF es = <<>> THEN <<>>
    ELSE (IF Head(es).outcome = "ok" THEN <<>>
          ELSE <<ErrMsg("error encoding metric family:", EncodeError(Head(es).f))>>)
         \o EncodeLogLines(Tail(es))

\* One log line per error of cycle c, in the order of the errors.
ExpectedLog(c) ==
    (IF gatherErr[c] # NilErr
     THEN <<ErrMsg("error gathering metrics:", gatherErr[c])>>
     ELSE <<>>)
    \o EncodeLogLines(encoded[c])

\* C15: with a log sink, what a cycle has logged is one line per Gather or
\* Encode error that occurred, in order, with the gathering prefix for the
\* Gather error and the encoding prefix for an Encode error, whatever the
\* policy; each line is printed right after the failing call and before
\* the policy's panic or error response.  Without a sink nothing is logged.
\* With and without a sink the policy acts: a panic under PanicOnError, an
\* error response under HTTPErrorOnError.
C15_ErrorsLoggedOnce ==
    \A c \in Cycles :
        /\ errlog[c] = (IF opts.ErrorLog THEN ExpectedLog(c) ELSE <<>>)
        /\ Count(trace[c], "Log") = Len(errlog[c])
        /\ \A i \in Positions(trace[c], {"Log"}) :
               i > 1 /\ trace[c][i - 1] \in {"Gather", "Encode"}
        /\ opts.ErrorLog =>
               \A i \in Positions(trace[c], {"panic", "Error"}) :
                   i > 1 /\ trace[c][i - 1] \in {"Log", "Len"}
        /\ (ErrorOccurred(c) /\ opts.ErrorHandling = PanicOnError) =>
               pc[c] = "AbortedFault" /\ fault[c] # NilErr
        /\ (ErrorOccurred(c) /\ opts.ErrorHandling = HTTPErrorOnError) =>
               pc[c] = "AbortedHTTPError"

\* C15's case: under PanicOnError with a sink, an Encode error was logged
\* and then the cycle panicked.
C15_Witness ==
    \E c \in Cycles :
        /\ opts.ErrorLog
        /\ opts.ErrorHandling = PanicOnError
        /\ pc[c] = "AbortedFault"
        /\ errlog[c] = <<ErrMsg("error encoding metric family:", EncodeError(2))>>

\* The error of the last failing Encode among es (NilErr: none failed).
RECURSIVE LastEncodeError(_)
LastEncodeError(es) ==
    IF es = <<>> THEN NilErr
    ELSE IF es[Len(es)].outcome # "ok" THEN EncodeError(es[Len(es)].f)
    ELSE LastEncodeError(SubSeq(es, 1, Len(es) - 1))

\* C16: the step a cycle takes after Close ends the cycle.  If the buffer
\* is non-empty or no error occurred in the cycle, the step sets the
\* success headers (Content-Type, Content-Length = the buffer's length,
\* Content-Encoding = the label if there is one) and writes the buffer's
\* bytes: Committed.  If the buffer is empty and an Encode failed, the step
\* answers the "No metrics encoded" server error with the text of the last
\* Encode error of the loop: AbortedHTTPError.
C16_CommitOrNoMetrics ==
    [][\A c \in Cycles :
          (pc[c] = "Finalizing" /\ pc'[c] # "Finalizing") =>
              /\ pc'[c] \in {"Committed", "AbortedHTTPError"}
              /\ (buf[held[c]] # <<>> \/ ~ErrorOccurred(c)) =>
                     /\ pc'[c] = "Committed"
                     /\ resp'[c].status = 200
                     /\ resp'[c].contentType = FmtText
                     /\ resp'[c].contentLength = Len(buf[held[c]])
                     /\ resp'[c].contentEncoding = encoding[c]
                     /\ resp'[c].bytes = buf[held[c]]
              /\ (buf[held[c]] = <<>> /\ LastEncodeError(encoded[c]) # NilErr) =>
                     /\ pc'[c] = "AbortedHTTPError"
                     /\ resp'[c].status = StatusInternalServerError
                     /\ resp'[c].text = ErrMsg("No metrics encoded, last error:",
                                               LastEncodeError(encoded[c]))
                     /\ resp'[c].bytes = <<>>]_vars

\* C16's case: two Encodes failed without output and the answer names the
\* second error.
C16_Witness ==
    \E c \in Cycles :
        /\ pc[c] = "AbortedHTTPError"
        /\ Len(encoded[c]) = 2
        /\ encoded[c][1].outcome = "fail"
        /\ resp[c].text = ErrMsg("No metrics encoded, last error:", EncodeError(2))

\* C17: a cycle calls Gather once; the families passed to Encode are the
\* first families Gather returned, each once and in Gather's order.  Under
\* ContinueOnError a cycle that has left the loop has passed every family;
\* under HTTPErrorOnError and PanicOnError only the last family passed can
\* have failed.
C17_EncodeOnceInOrder ==
    \A c \in Cycles :
        /\ Count(trace[c], "Gather") = (IF pc[c] \in {"Idle", "Start"} THEN 0 ELSE 1)
        /\ Count(trace[c], "Encode") = Len(encoded[c])
        /\ Len(encoded[c]) <= Len(mfs[c])
        /\ \A i \in 1..Len(encoded[c]) : encoded[c][i].f = mfs[c][i]
        /\ \A i, j \in 1..Len(mfs[c]) : i < j => mfs[c][i] # mfs[c][j]
        /\ (opts.ErrorHandling = ContinueOnError /\ held[c] # 0
                /\ pc[c] \in Terminal \cup {"Finalizing"}) =>
               Len(encoded[c]) = Len(mfs[c])
        /\ opts.ErrorHandling # ContinueOnError =>
               /\ \A i \in 1..(Len(encoded[c]) - 1) : encoded[c][i].outcome = "ok"
               /\ (Len(encoded[c]) > 0 /\ encoded[c][Len(encoded[c])].outcome # "ok") =>
                      pc[c] \in {"AbortedHTTPError", "AbortedFault"}

\* C17's case: under ContinueOnError the first family failed and the second
\* was still encoded.
C17_Witness ==
    \E c \in Cycles :
        /\ opts.ErrorHandling = ContinueOnError
        /\ pc[c] = "Committed"
        /\ Len(encoded[c]) = 2
        /\ encoded[c][1].outcome # "ok"
        /\ encoded[c][2].outcome = "ok"

\* C18: a cycle that has started reaches Committed, AbortedHTTPError or
\* AbortedFault and stays in the one it reached, under every policy, for
\* every list of families and every pattern of Encode failures; the loop
\* never makes more iterations than Gather returned families.
C18_CycleTerminates ==
    /\ \A c \in {1} : (pc[c] # "Idle") ~> (pc[c] \in Terminal)
    /\ [][\A c \in Cycles :
             /\ pc[c] \in Terminal => pc'[c] = pc[c]
             /\ Len(encoded'[c]) <= Len(mfs'[c])
             /\ Count(trace'[c], "Encode") <= Len(mfs'[c])]_vars

\* C18's case: a cycle ended after two iterations, the first of which
\* failed.
C18_Witness ==
    \E c \in Cycles :
        /\ pc[c] \in Terminal
        /\ Len(mfs[c]) = 2
        /\ Len(encoded[c]) = 2
        /\ encoded[c][1].outcome # "ok"

\* The buffer cycle c holds contains what the cycle's own writer put into
\* it and nothing else.
OwnBytesOnly(c) ==
    LET bytes == buf[held[c]]
        n == Len(bytes)
        h == IF writer[c].wroteHeader THEN 1 ELSE 0
        t == IF writer[c].closed THEN 1 ELSE 0
    IN  IF ~writer[c].gz
        THEN bytes = Produced(c)
        ELSE /\ n >= h + t
             /\ h = 1 => bytes[1] = GzHdr
             /\ t = 1 => bytes[n] = GzTrl
             /\ Inflate(SubSeq(bytes, h + 1, n - t)) \o writer[c].pending = Produced(c)

\* C19: with cycles that overlap, the buffer of a cycle between its getBuf
\* and its giveBuf is not in the pool, is the buffer of no other such
\* cycle and holds the bytes of this cycle only; giveBuf is the last call
\* of a cycle, after the body write, so a cycle does not touch a buffer it
\* has given back; a buffer in the pool is empty.
C19_BufferExclusive ==
    /\ \A c \in Holding :
           /\ held[c] \in BufIds
           /\ held[c] \notin pool
           /\ \A d \in Holding : d # c => held[d] # held[c]
           /\ OwnBytesOnly(c)
           /\ Count(trace[c], "giveBuf") = 0
    /\ \A c \in Cycles :
           /\ \A i \in Positions(trace[c], {"giveBuf"}) : i = Len(trace[c])
           /\ Count(trace[c], "giveBuf") > 0 => pc[c] \in Terminal
    /\ \A b \in pool : buf[b] = <<>>

\* C19's case: two cycles are between getBuf and giveBuf at the same time,
\* with different bytes in their buffers.
C19_Witness ==
    \E c, d \in Cycles :
        /\ c # d
        /\ c \in Holding /\ d \in Holding
        /\ buf[held[c]] # <<>> /\ buf[held[d]] # <<>>
        /\ buf[held[c]] # buf[held[d]]

\* C20: under gzip the buffer after Close starts with the gzip header and
\* ends with the trailer, so it is not empty even if no family was encoded;
\* a cycle that has closed its gzip writer ends Committed, and the "No
\* metrics encoded" answer is given only by cycles without gzip.
C20_GzipNeverNoMetrics ==
    \A c \in Cycles :
        /\ (pc[c] = "Finalizing" /\ writer[c].gz) =>
               /\ writer[c].closed
               /\ Len(buf[held[c]]) >= 2
               /\ buf[held[c]][1] = GzHdr
               /\ buf[held[c]][Len(buf[held[c]])] = GzTrl
        /\ (pc[c] \in Terminal /\ Count(trace[c], "Close") > 0) =>
               /\ pc[c] = "Committed"
               /\ Len(resp[c].bytes) >= 2
        /\ resp[c].text.prefix = "No metrics encoded, last error:" =>
               /\ ~writer[c].gz
               /\ Count(trace[c], "Close") = 0
               /\ encoding[c] = ""

\* C20's case: gzip was selected, the only Encode failed without output,
\* and the cycle committed the header and the trailer.
C20_Witness ==
    \E c \in Cycles :
        /\ pc[c] = "Committed"
        /\ writer[c].gz
        /\ lastErr[c] # NilErr
        /\ Produced(c) = <<>>
        /\ resp[c].bytes = <<GzHdr, GzTrl>>

====
